---- MODULE Spec2Model ----
(***************************************************************************)
(* Immutable Regulatory Sandbox: the experiment registry (db.ts), the      *)
(* createSandbox and finalizeExperiment commands (extension.ts) and the    *)
(* dashboard's openFolder handler (dashboard.ts), as a state machine.      *)
(* Every await of a handler is a point where another handler, another      *)
(* window sharing ~/.immutable-sandbox/registry.db, or a crash can         *)
(* interleave, so every awaited call is one action.                        *)
(***************************************************************************)
EXTENDS Integers, Sequences, FiniteSets, TLC

\* ---------------------------------------------------------------- bounds
\* Commands started in one behaviour (createSandbox + finalize + openFolder).
MaxOps == 2
\* The wall clock runs over 0..MaxClock.
MaxClock == 1
\* Invocations of hashDirectory on one directory state.
MaxHashRuns == 2

\* ------------------------------------------------------------- universes
Locs == {"expA"}
Finalizers == {"f1", "f2"}
Creators == {"c1", "c2"}
Openers == {"o1"}
Keys == {"K1"}

\* An optional value: <<>> is unset / absent (NULL, a missing file), <<v>> is v.
None == <<>>
Some(v) == <<v>>
IsSet(o) == o # <<>>

\* ------------------------------------------------------------ directories
\* A test that takes only the name "." itself for hidden.
StartsWithDot_wholeName(name) == name = <<".">>

\* An entry name is a sequence of segments; a hidden name starts with ".".
StartsWithDot(name) == Head(name) = "."

FileEntry(data) == [kind |-> "file", data |-> data]

\* The source data folder the analyst selects in the second dialog.
InputSource == [n \in {<<"a.csv">>} |-> FileEntry("1,2,3")]

InputReadme == "Data in this folder is READ-ONLY inside the container."
OutputReadme == "Write your results here. This is the only writeable directory for results."

Sha256(data) == <<"sha256", data>>

\* A symbolic link: what it resolves to ("file", "dir" or "nothing") and, for a
\* file, the content read through it.
LinkEntry(to, content) == [kind |-> "link", data |-> <<to, content>>]

\* fs.stat follows links: the kind of what the entry resolves to.
statKind(e) ==
    IF e.kind # "link" THEN e.kind
    ELSE IF e.data[1] = "nothing" THEN "ENOENT" ELSE e.data[1]

\* The bytes createReadStream delivers for the entry.
contentOf(e) == IF e.kind = "link" THEN e.data[2] ELSE e.data

\* A hashDirectory that lists the directory without first testing that it
\* exists: readdir rejects on a missing one.
hashThrows_onMissing(dir) ==
    \/ dir = None
    \/ \E n \in DOMAIN dir[1] :
          ~StartsWithDot(n) /\ statKind(dir[1][n]) = "ENOENT"

\* fs.stat rejects for a non-hidden entry: hashDirectory throws.  A missing
\* directory is answered with the empty mapping before anything is listed.
hashThrows(dir) ==
    /\ dir # None
    /\ \E n \in DOMAIN dir[1] :
          ~StartsWithDot(n) /\ statKind(dir[1][n]) = "ENOENT"

\* hashDirectory can throw: it must, or there is an entry whose stat or read
\* the file system may fail.
hashMayThrow(dir) == hashThrows(dir) \/ (dir # None /\ DOMAIN dir[1] # {})

\* calculateFileHash over every non-hidden entry of the directory itself for
\* which stat.isFile() holds: the mapping from entry name to digest.
hashDirectory(dir) ==
    IF dir = None THEN <<>>
    ELSE LET d == dir[1]
             keep == {n \in DOMAIN d :
                         ~StartsWithDot(n) /\ statKind(d[n]) = "file"}
         IN  [n \in keep |-> Sha256(contentOf(d[n]))]

\* The orders in which readdir may list the entries of a directory.
Listings(dir) ==
    IF dir = None THEN {<<>>}
    ELSE LET names == DOMAIN dir[1]
         IN  {s \in [1..Cardinality(names) -> names] :
                 \A i, j \in DOMAIN s : i # j => s[i] # s[j]}

\* A loop whose digest of a file also takes in how many were hashed before.
RECURSIVE hashEntries_chained(_, _, _)
hashEntries_chained(d, listing, hashes) ==
    IF listing = <<>> THEN [err |-> FALSE, hashes |-> hashes]
    ELSE LET file == Head(listing) IN
         IF StartsWithDot(file) THEN hashEntries_chained(d, Tail(listing), hashes)
         ELSE IF statKind(d[file]) = "ENOENT" THEN [err |-> TRUE, hashes |-> <<>>]
         ELSE IF statKind(d[file]) = "file"
              THEN hashEntries_chained(d, Tail(listing),
                       Append(hashes, <<file, Sha256(<<contentOf(d[file]),
                                                      Len(hashes)>>)>>))
              ELSE hashEntries_chained(d, Tail(listing), hashes)

\* The loop of hashDirectory over the listing, as the code runs it: hashes is
\* the object built so far, its keys in the order they were assigned.
RECURSIVE hashEntries(_, _, _)
hashEntries(d, listing, hashes) ==
    IF listing = <<>> THEN [err |-> FALSE, hashes |-> hashes]
    ELSE LET file == Head(listing) IN
         IF StartsWithDot(file) THEN hashEntries(d, Tail(listing), hashes)
         ELSE IF statKind(d[file]) = "ENOENT" THEN [err |-> TRUE, hashes |-> <<>>]
         ELSE IF statKind(d[file]) = "file"
              THEN hashEntries(d, Tail(listing),
                       Append(hashes, <<file, Sha256(contentOf(d[file]))>>))
              ELSE hashEntries(d, Tail(listing), hashes)

\* One invocation of hashDirectory when readdir answers with listing.
hashDirectoryListed(dir, listing) ==
    IF dir = None THEN [err |-> FALSE, hashes |-> <<>>]
    ELSE hashEntries(dir[1], listing, <<>>)

\* The object read as a mapping: key to value, whatever the order of keys.
Mapping(hashes) ==
    [k \in {hashes[i][1] : i \in DOMAIN hashes} |->
        hashes[CHOOSE i \in DOMAIN hashes : hashes[i][1] = k][2]]

\* A subdirectory and the entries in it.
DirEntry(children) == [kind |-> "dir", data |-> children]

\* The regular files of a directory and of its subdirectories, each as the
\* sequence of names that leads to it.
FilesIn(d) ==
    {<<n>> : n \in {x \in DOMAIN d : d[x].kind = "file"}}
    \cup UNION {{<<n, c>> : c \in {y \in DOMAIN d[n].data :
                                      d[n].data[y].kind = "file"}} :
                 n \in {x \in DOMAIN d : d[x].kind = "dir"}}

\* The directory with the file at path p holding data.
WriteFile(d, p, data) ==
    IF Len(p) = 1 THEN [d EXCEPT ![p[1]] = FileEntry(data)]
    ELSE [d EXCEPT ![p[1]] =
             DirEntry([d[p[1]].data EXCEPT ![p[2]] = FileEntry(data)])]

\* f with key k bound to v (k added when it is not in the domain).
Put(f, k, v) == [x \in DOMAIN f \cup {k} |-> IF x = k THEN v ELSE f[x]]

\* ------------------------------------------------------------- the disk
EmptyLocation ==
    [input |-> None, output |-> None, devcontainer |-> FALSE,
     code |-> {}, snapshot |-> None,
     manifest |-> None, sig |-> None, tsq |-> None, tsr |-> None]

ManifestPath(l) == <<l, "manifest.json">>

\* scaffoldProject, first half: the three ensureDir calls.
scaffoldDirs(loc) ==
    [loc EXCEPT !.input = IF loc.input = None THEN Some(<<>>) ELSE loc.input,
                !.output = IF loc.output = None THEN Some(<<>>) ELSE loc.output,
                !.devcontainer = TRUE]

\* scaffoldProject, second half: copy of the input source, placeholder files.
scaffoldFiles(loc) ==
    LET copied == [n \in DOMAIN loc.input[1] \cup DOMAIN InputSource |->
                      IF n \in DOMAIN InputSource THEN InputSource[n]
                      ELSE loc.input[1][n]]
        inp == IF <<"README.md">> \in DOMAIN copied THEN copied
               ELSE Put(copied, <<"README.md">>, FileEntry(InputReadme))
        out == Put(loc.output[1], <<"README.md">>, FileEntry(OutputReadme))
    IN  [loc EXCEPT !.input = Some(inp), !.output = Some(out)]

\* The existing-project check of createSandbox.
looksLikeProject(loc) == loc.output # None \/ loc.devcontainer

\* ----------------------------------------------------------- the registry
\* The experiments table: a sequence of rows in insertion order.  The schema
\* puts no UNIQUE constraint on path; id is the primary key.
\* An INSERT that gives the status of an opened experiment.
NewRow_opened(id, path) ==
    [id |-> id, path |-> path, status |-> "IN_PROGRESS",
     last_opened_at |-> None, finalized_at |-> None, manifest_path |-> None]

NewRow(id, path) ==
    [id |-> id, path |-> path, status |-> "CREATED",
     last_opened_at |-> None, finalized_at |-> None, manifest_path |-> None]

\* An INSERT OR REPLACE keyed by path: the rows of the path are dropped first.
insertExperiment_replacing(reg, id, path) ==
    Append(SelectSeq(reg, LAMBDA r : r.path # path), NewRow(id, path))

insertExperiment(reg, id, path) == Append(reg, NewRow(id, path))

\* A status update that stamps finalized_at whatever the new status is.
updateExperimentStatus_alwaysStamps(reg, path, status, t) ==
    [i \in DOMAIN reg |->
        IF reg[i].path # path THEN reg[i]
        ELSE [reg[i] EXCEPT !.status = status, !.finalized_at = Some(t)]]

\* A status update that writes the initial status whatever it is given.
updateExperimentStatus_reverting(reg, path, status, t) ==
    [i \in DOMAIN reg |->
        IF reg[i].path # path THEN reg[i]
        ELSE [reg[i] EXCEPT !.status = "CREATED"]]

updateExperimentStatus(reg, path, status, t) ==
    [i \in DOMAIN reg |->
        IF reg[i].path # path THEN reg[i]
        ELSE IF status = "COMPLETED"
             THEN [reg[i] EXCEPT !.status = status, !.finalized_at = Some(t)]
             ELSE [reg[i] EXCEPT !.status = status]]

\* An UPDATE of last_opened_at that has lost its WHERE clause.
updateLastOpened_noWhere(reg, path, t) ==
    [i \in DOMAIN reg |-> [reg[i] EXCEPT !.last_opened_at = Some(t)]]

updateLastOpened(reg, path, t) ==
    [i \in DOMAIN reg |->
        IF reg[i].path # path THEN reg[i]
        ELSE [reg[i] EXCEPT !.last_opened_at = Some(t)]]

\* A finalize written as two statements of which only the first has run.
finalizeExperiment_statusOnly(reg, path, manifestPath, t) ==
    [i \in DOMAIN reg |->
        IF reg[i].path # path THEN reg[i]
        ELSE [reg[i] EXCEPT !.status = "COMPLETED"]]

\* A finalize whose UPDATE applies to an opened experiment only.
finalizeExperiment_onlyInProgress(reg, path, manifestPath, t) ==
    [i \in DOMAIN reg |->
        IF reg[i].path # path \/ reg[i].status # "IN_PROGRESS" THEN reg[i]
        ELSE [reg[i] EXCEPT !.status = "COMPLETED",
                            !.finalized_at = Some(t),
                            !.manifest_path = Some(manifestPath)]]

\* One UPDATE statement: the three columns change together.
finalizeExperiment(reg, path, manifestPath, t) ==
    [i \in DOMAIN reg |->
        IF reg[i].path # path THEN reg[i]
        ELSE [reg[i] EXCEPT !.status = "COMPLETED",
                            !.finalized_at = Some(t),
                            !.manifest_path = Some(manifestPath)]]

RowsAt(reg, path) == {i \in DOMAIN reg : reg[i].path = path}

\* SELECT * FROM experiments WHERE path = ?  (db.get: the first row, or none)
getExperimentByPath(reg, path) ==
    IF RowsAt(reg, path) = {} THEN None
    ELSE Some(reg[CHOOSE i \in RowsAt(reg, path) :
                     \A j \in RowsAt(reg, path) : i <= j])

\* ------------------------------------------------------------------ state
VARIABLES
    now,        \* the latest instant any clock read has returned
    registry,   \* the experiments table
    disk,       \* per location: the files the commands read and write
    gpgKeyId,   \* the persisted immutable.gpgKeyId setting
    pipInstalled, \* whether `pip freeze` runs on this host
    fin,        \* per finalize command in flight: its position and locals
    cre,        \* per createSandbox command in flight
    opn,        \* per openFolder message being handled
    ops,        \* commands started so far
    vf,         \* what was edited after the finalize, and the last verdict
    hr,         \* what the invocations of hashDirectory under study returned
    kg          \* the gpg keyring and the calls of getOrGenerateKey under study

vars == <<now, registry, disk, gpgKeyId, pipInstalled, fin, cre, opn, ops, vf, hr, kg>>

FinIdle ==
    [pc |-> "idle", loc |-> "expA", inH |-> <<>>, outH |-> <<>>, pip |-> "",
     wrote |-> None, signed |-> FALSE,
     res |-> "none", warn |-> FALSE]
CreIdle == [pc |-> "idle", loc |-> "expA", res |-> "none", warn |-> FALSE]
OpnIdle == [pc |-> "idle", loc |-> "expA", via |-> "open"]
VfIdle == [tampered |-> None, result |-> None]
KeyCallers == {"g1", "g2"}
KgCallIdle == [pc |-> "idle", keyId |-> None, announced |-> FALSE]
KgIdle == [ring |-> <<>>, call |-> [g \in KeyCallers |-> KgCallIdle],
           returned |-> {}]

\* A location as a completed createSandbox leaves it.
ScaffoldedLocation == scaffoldFiles(scaffoldDirs(EmptyLocation))

\* The registry file outlives the session: a location is either untouched or
\* an experiment an earlier createSandbox scaffolded and registered.
Init ==
    /\ now = 0
    /\ \E created \in SUBSET Locs :
          /\ disk = [l \in Locs |-> IF l \in created THEN ScaffoldedLocation
                                     ELSE EmptyLocation]
          /\ \E order \in [1..Cardinality(created) -> created] :
                /\ \A i, j \in DOMAIN order : i # j => order[i] # order[j]
                /\ registry = [i \in DOMAIN order |-> NewRow(i, order[i])]
    /\ gpgKeyId = None
    /\ pipInstalled \in BOOLEAN
    /\ fin = [f \in Finalizers |-> FinIdle]
    /\ cre = [c \in Creators |-> CreIdle]
    /\ opn = [o \in Openers |-> OpnIdle]
    /\ ops = 0
    /\ vf = VfIdle
    /\ hr = <<>>
    /\ kg = KgIdle

AllIdleFin == \A f \in Finalizers : fin[f].pc = "idle"

\* Status of the row getExperimentByPath would return, "NONE" without a row.
StatusAt(reg, path) ==
    IF getExperimentByPath(reg, path) = None THEN "NONE"
    ELSE getExperimentByPath(reg, path)[1].status

\* Invocations of a command are anonymous: a new one takes the first free
\* slot of its kind (slot 2 only while slot 1 is in flight).
Earlier(p) ==
    IF p = "f2" THEN {"f1"} ELSE IF p = "c2" THEN {"c1"}
    ELSE IF p = "g2" THEN {"g1"} ELSE {}
FreeSlot(procs, p) ==
    procs[p].pc = "idle" /\ \A q \in Earlier(p) : procs[q].pc # "idle"

\* The instants a clock read can return: the clock never runs backwards.
Instants == now..MaxClock

\* ------------------------------------------------- immutable.createSandbox
\* First dialog answered with folder l; the existing-project check runs in
\* the same turn and, when it passes, the registry lookup is issued.
CsStart(c, l) ==
    /\ FreeSlot(cre, c)
    /\ ops < MaxOps
    /\ ops' = ops + 1
    /\ IF looksLikeProject(disk[l])
       THEN cre' = [cre EXCEPT ![c] = [CreIdle EXCEPT !.pc = "done", !.loc = l,
                                                      !.res = "rejected"]]
       ELSE cre' = [cre EXCEPT ![c] = [CreIdle EXCEPT !.pc = "dbcheck", !.loc = l]]
    /\ UNCHANGED <<now, registry, disk, gpgKeyId, pipInstalled, fin, opn, vf, hr, kg>>

\* First dialog dismissed: the command returns at once.
CsCancelLocation(c) ==
    /\ FreeSlot(cre, c)
    /\ ops < MaxOps
    /\ ops' = ops + 1
    /\ cre' = [cre EXCEPT ![c] = [CreIdle EXCEPT !.pc = "done", !.res = "cancelled"]]
    /\ UNCHANGED <<now, registry, disk, gpgKeyId, pipInstalled, fin, opn, vf, hr, kg>>

\* A createSandbox that skips the registry lookup.
alreadyRegistered_skipped(reg, path) == FALSE

\* Whether the registry lookup of createSandbox rejects the folder.
alreadyRegistered(reg, path) == getExperimentByPath(reg, path) # None

CsDbCheck(c) ==
    /\ cre[c].pc = "dbcheck"
    /\ IF alreadyRegistered(registry, cre[c].loc)
       THEN cre' = [cre EXCEPT ![c].pc = "done", ![c].res = "rejected"]
       ELSE cre' = [cre EXCEPT ![c].pc = "dialog2"]
    /\ UNCHANGED <<now, registry, disk, gpgKeyId, pipInstalled, fin, opn, ops, vf, hr, kg>>

\* A command that creates the directories before it asks for the input
\* source.
CsInputDialog_afterEnsureDir(c) ==
    /\ cre[c].pc = "dialog2"
    /\ disk' = [disk EXCEPT ![cre[c].loc] = scaffoldDirs(@)]
    /\ \/ cre' = [cre EXCEPT ![c].pc = "scaffoldDirs"]
       \/ cre' = [cre EXCEPT ![c].pc = "done", ![c].res = "cancelled"]
    /\ UNCHANGED <<now, registry, gpgKeyId, pipInstalled, fin, opn, ops, vf, hr, kg>>

\* Second dialog: an input source is picked, or the dialog is dismissed.
CsInputDialog(c) ==
    /\ cre[c].pc = "dialog2"
    /\ \/ cre' = [cre EXCEPT ![c].pc = "scaffoldDirs"]
       \/ cre' = [cre EXCEPT ![c].pc = "done", ![c].res = "cancelled"]
    /\ UNCHANGED <<now, registry, disk, gpgKeyId, pipInstalled, fin, opn, ops, vf, hr, kg>>

\* A scaffolding whose directory error is caught and logged, as the git
\* block's is: the command goes on to git and the registration.
CsScaffoldDirs_errorSwallowed(c) ==
    /\ cre[c].pc = "scaffoldDirs"
    /\ \/ /\ disk' = [disk EXCEPT ![cre[c].loc] = scaffoldDirs(@)]
          /\ cre' = [cre EXCEPT ![c].pc = "scaffoldFiles"]
       \/ /\ cre' = [cre EXCEPT ![c].pc = "git", ![c].warn = TRUE]
          /\ UNCHANGED disk
    /\ UNCHANGED <<now, registry, gpgKeyId, pipInstalled, fin, opn, ops, vf, hr, kg>>

CsScaffoldDirs(c) ==
    /\ cre[c].pc = "scaffoldDirs"
    /\ \/ /\ disk' = [disk EXCEPT ![cre[c].loc] = scaffoldDirs(@)]
          /\ cre' = [cre EXCEPT ![c].pc = "scaffoldFiles"]
       \/ /\ cre' = [cre EXCEPT ![c].pc = "done", ![c].res = "failed"]
          /\ UNCHANGED disk
    /\ UNCHANGED <<now, registry, gpgKeyId, pipInstalled, fin, opn, ops, vf, hr, kg>>

CsScaffoldFiles(c) ==
    /\ cre[c].pc = "scaffoldFiles"
    /\ \/ /\ disk' = [disk EXCEPT ![cre[c].loc] = scaffoldFiles(@)]
          /\ cre' = [cre EXCEPT ![c].pc = "git"]
       \/ /\ cre' = [cre EXCEPT ![c].pc = "done", ![c].res = "failed"]
          /\ UNCHANGED disk
    /\ UNCHANGED <<now, registry, gpgKeyId, pipInstalled, fin, opn, ops, vf, hr, kg>>

\* git init / add / commit: a failure is a warning only.
CsGit(c) ==
    /\ cre[c].pc = "git"
    /\ \E ok \in BOOLEAN :
          cre' = [cre EXCEPT ![c].pc = "insert", ![c].warn = ~ok]
    /\ UNCHANGED <<now, registry, disk, gpgKeyId, pipInstalled, fin, opn, ops, vf, hr, kg>>

\* crypto.randomUUID(): an id no row has.
FreshId(reg) == Len(reg) + 1

\* db.insertExperiment: the row is added and the command reports success, or
\* the statement is rejected (registry file locked or unwritable) and the
\* catch block reports the failure.
CsInsert(c) ==
    /\ cre[c].pc = "insert"
    /\ \/ /\ registry' = insertExperiment(registry, FreshId(registry), cre[c].loc)
          /\ cre' = [cre EXCEPT ![c].pc = "done", ![c].res = "success"]
       \/ /\ cre' = [cre EXCEPT ![c].pc = "done", ![c].res = "failed"]
          /\ UNCHANGED registry
    /\ UNCHANGED <<now, disk, gpgKeyId, pipInstalled, fin, opn, ops, vf, hr, kg>>

CsReturn(c) ==
    /\ cre[c].pc = "done"
    /\ cre' = [cre EXCEPT ![c] = CreIdle]
    /\ UNCHANGED <<now, registry, disk, gpgKeyId, pipInstalled, fin, opn, ops, vf, hr, kg>>

\* --------------------------------------------- immutable.finalizeExperiment
\* A command whose success message is shown after the catch block as well.
FinFailed_reportsSuccess(f) == [fin EXCEPT ![f].pc = "done", ![f].res = "success"]

\* The catch block of the command: an error message, nothing else.
FinFailed(f) == [fin EXCEPT ![f].pc = "done", ![f].res = "failed"]

\* The command starts on the workspace folder l (any open folder).
FinStart(f, l) ==
    /\ FreeSlot(fin, f)
    /\ ops < MaxOps
    /\ ops' = ops + 1
    /\ fin' = [fin EXCEPT ![f] = [FinIdle EXCEPT !.pc = "hashIn", !.loc = l]]
    /\ UNCHANGED <<now, registry, disk, gpgKeyId, pipInstalled, cre, opn, vf, hr, kg>>

\* hashDirectory(input/): the mapping, or a stat / read error that is thrown.
FinHashInput(f) ==
    /\ fin[f].pc = "hashIn"
    /\ \/ /\ ~hashThrows(disk[fin[f].loc].input)
          /\ fin' = [fin EXCEPT ![f].pc = "hashOut",
                                ![f].inH = hashDirectory(disk[fin[f].loc].input)]
       \/ /\ hashMayThrow(disk[fin[f].loc].input)
          /\ fin' = FinFailed(f)
    /\ UNCHANGED <<now, registry, disk, gpgKeyId, pipInstalled, cre, opn, ops, vf, hr, kg>>

FinHashOutput(f) ==
    /\ fin[f].pc = "hashOut"
    /\ \/ /\ ~hashThrows(disk[fin[f].loc].output)
          /\ fin' = [fin EXCEPT ![f].pc = "pip",
                                ![f].outH = hashDirectory(disk[fin[f].loc].output)]
       \/ /\ hashMayThrow(disk[fin[f].loc].output)
          /\ fin' = FinFailed(f)
    /\ UNCHANGED <<now, registry, disk, gpgKeyId, pipInstalled, cre, opn, ops, vf, hr, kg>>

\* pip freeze: its output, or the error text in its place.
pipFreeze(installed) ==
    IF installed THEN "pip-freeze-output" ELSE "Error capturing pip freeze"

\* A command whose environment capture is not in a try block of its own: a
\* failing pip freeze ends it.
FinPipFreeze_fatal(f) ==
    /\ fin[f].pc = "pip"
    /\ fin' = IF pipInstalled
              THEN [fin EXCEPT ![f].pc = "snapshot",
                               ![f].pip = pipFreeze(pipInstalled)]
              ELSE FinFailed(f)
    /\ UNCHANGED <<now, registry, disk, gpgKeyId, pipInstalled, cre, opn, ops, vf, hr, kg>>

\* A command that goes from the environment capture to the manifest.
FinPipFreeze_skipsSnapshot(f) ==
    /\ fin[f].pc = "pip"
    /\ fin' = [fin EXCEPT ![f].pc = "write", ![f].pip = pipFreeze(pipInstalled)]
    /\ UNCHANGED <<now, registry, disk, gpgKeyId, pipInstalled, cre, opn, ops, vf, hr, kg>>

FinPipFreeze(f) ==
    /\ fin[f].pc = "pip"
    /\ fin' = [fin EXCEPT ![f].pc = "snapshot", ![f].pip = pipFreeze(pipInstalled)]
    /\ UNCHANGED <<now, registry, disk, gpgKeyId, pipInstalled, cre, opn, ops, vf, hr, kg>>

\* path.basename of a workspace path: its last segment.
basename(p) == p[Len(p)]

\* .provenance/code_snapshot: every code file found, copied under its basename.
codeSnapshot(loc) ==
    (IF loc.snapshot = None THEN {} ELSE loc.snapshot[1])
        \cup {basename(p) : p \in loc.code}

\* findFiles('**/*.{py,ipynb,R}') leaves out node_modules only: the copies an
\* earlier run put under .provenance/code_snapshot are found as well, and
\* fs.copy of such a file has itself for destination, which it refuses.
copiesOntoItself(loc) == loc.snapshot # None /\ loc.snapshot[1] # {}

\* ensureDir, findFiles, then one fs.copy per file found, in the order found:
\* the copy that throws ends the command, after any number of the others.
FinSnapshot(f) ==
    /\ fin[f].pc = "snapshot"
    /\ LET loc == disk[fin[f].loc] IN
       IF copiesOntoItself(loc)
       THEN /\ \E copied \in SUBSET loc.code :
                  disk' = [disk EXCEPT ![fin[f].loc].snapshot =
                              Some(loc.snapshot[1]
                                       \cup {basename(p) : p \in copied})]
            /\ fin' = FinFailed(f)
       ELSE /\ disk' = [disk EXCEPT ![fin[f].loc].snapshot = Some(codeSnapshot(loc))]
            /\ fin' = [fin EXCEPT ![f].pc = "write"]
    /\ UNCHANGED <<now, registry, gpgKeyId, pipInstalled, cre, opn, ops, vf, hr, kg>>

buildManifest(t, inH, outH, pip) ==
    [timestamp |-> t, input_hashes |-> inH, output_hashes |-> outH,
     pip_freeze |-> pip]

\* new Date() for the manifest, then fs.writeJson(manifest.json)
FinWriteManifest(f) ==
    /\ fin[f].pc = "write"
    /\ \E t \in Instants :
          LET m == buildManifest(t, fin[f].inH, fin[f].outH, fin[f].pip)
          IN  /\ now' = t
              /\ disk' = [disk EXCEPT ![fin[f].loc].manifest = Some(m)]
              /\ fin' = [fin EXCEPT ![f].pc = "sign", ![f].wrote = Some(m)]
    /\ UNCHANGED <<registry, gpgKeyId, pipInstalled, cre, opn, ops, vf, hr, kg>>

\* A detached signature: the bytes it was made over and the signing key.
Signature(bytes, key) == [over |-> bytes, key |-> key]

\* A signing step whose error is only logged: the command carries on.
afterSignFailure_swallowed(f) == [fin EXCEPT ![f].pc = "tsQuery"]

\* A signing step whose error is taken for a warning: timestamping is
\* skipped and the registry update still runs.
afterSignFailure_warned(f) == [fin EXCEPT ![f].pc = "db", ![f].warn = TRUE]

\* Where the command goes when the signing step throws.
afterSignFailure(f) == FinFailed(f)

\* getOrGenerateKey, then gpg --detach-sign of the manifest file as it is on
\* disk at that moment.  The key is the configured one, or one found or
\* generated (and then persisted); lookup, generation and signing can fail.
FinSign(f) ==
    /\ fin[f].pc = "sign"
    /\ \/ \E k \in Keys :
            /\ gpgKeyId \in {None, Some(k)}
            /\ gpgKeyId' = Some(k)
            /\ \/ /\ disk' = [disk EXCEPT ![fin[f].loc].sig =
                                  Some(Signature(disk[fin[f].loc].manifest[1], k))]
                  /\ fin' = [fin EXCEPT ![f].pc = "tsQuery", ![f].signed = TRUE]
               \/ /\ fin' = afterSignFailure(f)
                  /\ UNCHANGED disk
       \/ /\ gpgKeyId = None
          /\ fin' = afterSignFailure(f)
          /\ UNCHANGED <<disk, gpgKeyId>>
    /\ UNCHANGED <<now, registry, pipInstalled, cre, opn, ops, vf, hr, kg>>

\* openssl ts -query over manifest.json: writes manifest.tsq, or fails (warning).
FinTsQuery(f) ==
    /\ fin[f].pc = "tsQuery"
    /\ \/ /\ disk' = [disk EXCEPT ![fin[f].loc].tsq =
                          Some(Sha256(disk[fin[f].loc].manifest[1]))]
          /\ fin' = [fin EXCEPT ![f].pc = "tsSubmit"]
       \/ /\ fin' = [fin EXCEPT ![f].pc = "db", ![f].warn = TRUE]
          /\ UNCHANGED disk
    /\ UNCHANGED <<now, registry, gpgKeyId, pipInstalled, cre, opn, ops, vf, hr, kg>>

\* curl of manifest.tsq to the authority, answer to manifest.tsr, then removal
\* of manifest.tsq; an unreachable authority (or a manifest.tsq that a
\* concurrent run already removed) is a warning and leaves the files as they are.
FinTsSubmit(f) ==
    /\ fin[f].pc = "tsSubmit"
    /\ \/ /\ disk[fin[f].loc].tsq # None
          /\ disk' = [disk EXCEPT ![fin[f].loc].tsr =
                          Some([token_over |-> disk[fin[f].loc].tsq[1]]),
                                  ![fin[f].loc].tsq = None]
          /\ fin' = [fin EXCEPT ![f].pc = "db"]
       \/ /\ fin' = [fin EXCEPT ![f].pc = "db", ![f].warn = TRUE]
          /\ UNCHANGED disk
    /\ UNCHANGED <<now, registry, gpgKeyId, pipInstalled, cre, opn, ops, vf, hr, kg>>

\* db.finalizeExperiment, then the success message.
FinUpdateDb(f) ==
    /\ fin[f].pc = "db"
    /\ \E t \in Instants :
          /\ now' = t
          /\ registry' = finalizeExperiment(registry, fin[f].loc,
                                            ManifestPath(fin[f].loc), t)
    /\ fin' = [fin EXCEPT ![f].pc = "done", ![f].res = "success"]
    /\ UNCHANGED <<disk, gpgKeyId, pipInstalled, cre, opn, ops, vf, hr, kg>>

FinReturn(f) ==
    /\ fin[f].pc = "done"
    /\ fin' = [fin EXCEPT ![f] = FinIdle]
    /\ UNCHANGED <<now, registry, disk, gpgKeyId, pipInstalled, cre, opn, ops, vf, hr, kg>>

\* ------------------------------------------------- dashboard: openFolder
OpStart(o, l) ==
    /\ FreeSlot(opn, o)
    /\ ops < MaxOps
    /\ ops' = ops + 1
    /\ opn' = [opn EXCEPT ![o] = [pc |-> "get", loc |-> l, via |-> "open"]]
    /\ UNCHANGED <<now, registry, disk, gpgKeyId, pipInstalled, fin, cre, vf, hr, kg>>

\* The 'Verify Integrity Now' button, which the dashboard renders on the card
\* of a COMPLETED experiment: window.verify posts an openFolder message for
\* the experiment, handled like any other, and two seconds later a verify
\* message, whose command no part of the extension registers.
VfStart(o, l) ==
    /\ FreeSlot(opn, o)
    /\ ops < MaxOps
    /\ StatusAt(registry, l) = "COMPLETED"
    /\ ops' = ops + 1
    /\ opn' = [opn EXCEPT ![o] = [pc |-> "get", loc |-> l, via |-> "verify"]]
    /\ UNCHANGED <<now, registry, disk, gpgKeyId, pipInstalled, fin, cre, vf, hr, kg>>

\* The guard of the status update, on the row getExperimentByPath returned.
mayMarkInProgress(exp) == exp # None /\ exp[1].status # "COMPLETED"

\* getExperimentByPath answers; the status update is issued when the guard holds.
OpGet(o) ==
    /\ opn[o].pc = "get"
    /\ opn' = [opn EXCEPT ![o].pc =
                  IF mayMarkInProgress(getExperimentByPath(registry, opn[o].loc))
                  THEN "status" ELSE "lastOpened"]
    /\ UNCHANGED <<now, registry, disk, gpgKeyId, pipInstalled, fin, cre, ops, vf, hr, kg>>

OpUpdateStatus(o) ==
    /\ opn[o].pc = "status"
    /\ registry' = updateExperimentStatus(registry, opn[o].loc, "IN_PROGRESS", now)
    /\ opn' = [opn EXCEPT ![o].pc = "lastOpened"]
    /\ UNCHANGED <<now, disk, gpgKeyId, pipInstalled, fin, cre, ops, vf, hr, kg>>

\* updateLastOpened, then the folder is opened.
OpUpdateLastOpened(o) ==
    /\ opn[o].pc = "lastOpened"
    /\ \E t \in Instants :
          /\ now' = t
          /\ registry' = updateLastOpened(registry, opn[o].loc, t)
    /\ opn' = [opn EXCEPT ![o] = OpnIdle]
    /\ UNCHANGED <<disk, gpgKeyId, pipInstalled, fin, cre, ops, vf, hr, kg>>

\* ------------------------------------------------------------ environment
\* The extension host dies: every command in flight is lost where it stands;
\* the registry, the disk and the settings stay as they are.
Crash ==
    /\ \/ \E f \in Finalizers : fin[f].pc # "idle"
       \/ \E c \in Creators : cre[c].pc # "idle"
       \/ \E o \in Openers : opn[o].pc # "idle"
    /\ fin' = [f \in Finalizers |-> FinIdle]
    /\ cre' = [c \in Creators |-> CreIdle]
    /\ opn' = [o \in Openers |-> OpnIdle]
    /\ UNCHANGED <<now, registry, disk, gpgKeyId, pipInstalled, ops, vf, hr, kg>>

Next ==
    \/ \E c \in Creators, l \in Locs : CsStart(c, l)
    \/ \E c \in Creators : CsCancelLocation(c)
    \/ \E c \in Creators : CsDbCheck(c)
    \/ \E c \in Creators : CsInputDialog(c)
    \/ \E c \in Creators : CsScaffoldDirs(c)
    \/ \E c \in Creators : CsScaffoldFiles(c)
    \/ \E c \in Creators : CsGit(c)
    \/ \E c \in Creators : CsInsert(c)
    \/ \E c \in Creators : CsReturn(c)
    \/ \E f \in Finalizers, l \in Locs : FinStart(f, l)
    \/ \E f \in Finalizers : FinHashInput(f)
    \/ \E f \in Finalizers : FinHashOutput(f)
    \/ \E f \in Finalizers : FinPipFreeze(f)
    \/ \E f \in Finalizers : FinSnapshot(f)
    \/ \E f \in Finalizers : FinWriteManifest(f)
    \/ \E f \in Finalizers : FinSign(f)
    \/ \E f \in Finalizers : FinTsQuery(f)
    \/ \E f \in Finalizers : FinTsSubmit(f)
    \/ \E f \in Finalizers : FinUpdateDb(f)
    \/ \E f \in Finalizers : FinReturn(f)
    \/ \E o \in Openers, l \in Locs : OpStart(o, l)
    \/ \E o \in Openers, l \in Locs : VfStart(o, l)
    \/ \E o \in Openers : OpGet(o)
    \/ \E o \in Openers : OpUpdateStatus(o)
    \/ \E o \in Openers : OpUpdateLastOpened(o)
    \/ Crash

Spec == Init /\ [][Next]_vars

\* ------------------------------------------------ one finalize at a time
\* The code files of a workspace, as paths below its root.
CodeFiles == {<<"train.py">>, <<"lib", "train.py">>}

\* An experiment createSandbox registered, in which the user has since
\* written any of the code files.
InitRetry ==
    /\ now = 0
    /\ \E code \in SUBSET CodeFiles :
          disk = [l \in Locs |-> [ScaffoldedLocation EXCEPT !.code = code]]
    /\ registry = <<NewRow(1, "expA")>>
    /\ gpgKeyId = None
    /\ pipInstalled \in BOOLEAN
    /\ fin = [f \in Finalizers |-> FinIdle]
    /\ cre = [c \in Creators |-> CreIdle]
    /\ opn = [o \in Openers |-> OpnIdle]
    /\ ops = 0
    /\ vf = VfIdle
    /\ hr = <<>>
    /\ kg = KgIdle

\* The finalize command invoked again only after its previous run returned,
\* in one window and with no other command in between.
NextRetry ==
    \/ \E l \in Locs : FinStart("f1", l)
    \/ FinHashInput("f1")
    \/ FinHashOutput("f1")
    \/ FinPipFreeze("f1")
    \/ FinSnapshot("f1")
    \/ FinWriteManifest("f1")
    \/ FinSign("f1")
    \/ FinTsQuery("f1")
    \/ FinTsSubmit("f1")
    \/ FinUpdateDb("f1")
    \/ FinReturn("f1")

SpecRetry == InitRetry /\ [][NextRetry]_vars

\* --------------------------------------------- finalize, edit, verify
\* What an analyst may have written under output/ (mounted writeable) by the
\* time of the finalize: a result file, a folder of figures, both or neither.
WorkTrees ==
    LET readme == [n \in {<<"README.md">>} |-> FileEntry(OutputReadme)]
        result == [n \in {<<"result.csv">>} |-> FileEntry("4,5,6")]
        figs == [n \in {<<"figs">>} |->
                    DirEntry([c \in {<<"plot.png">>} |-> FileEntry("png")])]
    IN  {readme, readme @@ result, readme @@ figs, readme @@ result @@ figs}

InitVerify ==
    /\ now = 0
    /\ \E tree \in WorkTrees :
          disk = [l \in Locs |-> [ScaffoldedLocation EXCEPT !.output = Some(tree)]]
    /\ registry = <<NewRow(1, "expA")>>
    /\ gpgKeyId = None
    /\ pipInstalled \in BOOLEAN
    /\ fin = [f \in Finalizers |-> FinIdle]
    /\ cre = [c \in Creators |-> CreIdle]
    /\ opn = [o \in Openers |-> OpnIdle]
    /\ ops = 0
    /\ vf = VfIdle
    /\ hr = <<>>
    /\ kg = KgIdle

\* Someone changes the content of one file under output/ of a COMPLETED
\* experiment on which no finalize is running.
Tamper(l) ==
    /\ StatusAt(registry, l) = "COMPLETED"
    /\ AllIdleFin
    /\ vf.tampered = None
    /\ \E p \in FilesIn(disk[l].output[1]) :
          /\ disk' = [disk EXCEPT ![l].output =
                          Some(WriteFile(disk[l].output[1], p, "tampered"))]
          /\ vf' = [tampered |-> Some(<<"output">> \o p), result |-> None]
    /\ UNCHANGED <<now, registry, gpgKeyId, pipInstalled, fin, cre, opn, ops, hr, kg>>

\* The digests of now against the stored ones: the names that are in one
\* mapping only or have two digests.
differing(stored, current) ==
    {n \in DOMAIN stored \cup DOMAIN current :
        \/ n \notin DOMAIN stored
        \/ n \notin DOMAIN current
        \/ stored[n] # current[n]}

\* The verifier: the digests are recomputed with hashDirectory and compared
\* with the manifest's, then the signature and the token are checked against
\* the manifest bytes.
verify(loc) ==
    LET m == loc.manifest[1]
        paths ==
            {<<"input", n>> :
                n \in differing(m.input_hashes, hashDirectory(loc.input))}
            \cup {<<"output", n>> :
                n \in differing(m.output_hashes, hashDirectory(loc.output))}
    IN  IF paths # {} THEN [verdict |-> "ContentMismatch", paths |-> paths]
        ELSE IF loc.sig = None \/ loc.sig[1].over # m
             THEN [verdict |-> "SignatureInvalid", paths |-> {}]
        ELSE IF loc.tsr = None
             THEN [verdict |-> "TimestampAbsent", paths |-> {}]
        ELSE IF loc.tsr[1].token_over # Sha256(m)
             THEN [verdict |-> "TimestampInvalid", paths |-> {}]
        ELSE [verdict |-> "Valid", paths |-> {}]

\* verify() on a COMPLETED experiment on which no finalize is running.
VerifyRun(l) ==
    /\ StatusAt(registry, l) = "COMPLETED"
    /\ AllIdleFin
    /\ disk[l].manifest # None
    /\ vf' = [vf EXCEPT !.result = Some(verify(disk[l]))]
    /\ UNCHANGED <<now, registry, disk, gpgKeyId, pipInstalled, fin, cre, opn, ops, hr, kg>>

NextVerify ==
    \/ NextRetry
    \/ \E l \in Locs : Tamper(l)
    \/ \E l \in Locs : VerifyRun(l)

SpecVerify == InitVerify /\ [][NextVerify]_vars

\* ------------------------------------------------------ two experiments
TwoLocs == {"expA", "expB"}

\* Two experiments, each scaffolded and registered by a createSandbox.
InitTwo ==
    /\ now = 0
    /\ disk = [l \in TwoLocs |-> ScaffoldedLocation]
    /\ registry = <<NewRow(1, "expA"), NewRow(2, "expB")>>
    /\ gpgKeyId = None
    /\ pipInstalled = TRUE
    /\ fin = [f \in Finalizers |-> FinIdle]
    /\ cre = [c \in Creators |-> CreIdle]
    /\ opn = [o \in Openers |-> OpnIdle]
    /\ ops = 0
    /\ vf = VfIdle
    /\ hr = <<>>
    /\ kg = KgIdle

\* Finalizes and openFolder requests on either experiment, interleaved.
NextTwo ==
    \/ \E f \in Finalizers, l \in TwoLocs : FinStart(f, l)
    \/ \E f \in Finalizers : FinHashInput(f)
    \/ \E f \in Finalizers : FinHashOutput(f)
    \/ \E f \in Finalizers : FinPipFreeze(f)
    \/ \E f \in Finalizers : FinSnapshot(f)
    \/ \E f \in Finalizers : FinWriteManifest(f)
    \/ \E f \in Finalizers : FinSign(f)
    \/ \E f \in Finalizers : FinTsQuery(f)
    \/ \E f \in Finalizers : FinTsSubmit(f)
    \/ \E f \in Finalizers : FinUpdateDb(f)
    \/ \E f \in Finalizers : FinReturn(f)
    \/ \E o \in Openers, l \in TwoLocs : OpStart(o, l)
    \/ \E o \in Openers : OpGet(o)
    \/ \E o \in Openers : OpUpdateStatus(o)
    \/ \E o \in Openers : OpUpdateLastOpened(o)

SpecTwo == InitTwo /\ [][NextTwo]_vars

\* ------------------------------------------------- hashDirectory alone
\* The entries a directory under study may hold: two data files, a hidden
\* file, a subdirectory with a file in it.
HashEntries ==
    (<<"a.csv">> :> FileEntry("1,2,3"))
    @@ (<<"b.csv">> :> FileEntry("4,5,6"))
    @@ (<<".", "cache">> :> FileEntry("tmp"))
    @@ (<<"sub">> :> DirEntry(<<"c.csv">> :> FileEntry("7,8,9")))

\* What a symbolic link in the directory may resolve to.
LinkKinds == {"file", "dir", "nothing"}

\* The directory states: any of the entries, with or without a link.
HashTrees ==
    LET plain == {[n \in S |-> HashEntries[n]] : S \in SUBSET DOMAIN HashEntries}
    IN  plain \cup {t @@ (<<"ln">> :> LinkEntry(k, "linked")) :
                        t \in plain, k \in LinkKinds}

\* A location whose input/ is missing or is one of the directory states.
InitHash ==
    /\ now = 0
    /\ \E dir \in {None} \cup {Some(t) : t \in HashTrees} :
          disk = [l \in Locs |-> [EmptyLocation EXCEPT !.input = dir]]
    /\ registry = <<>>
    /\ gpgKeyId = None
    /\ pipInstalled = TRUE
    /\ fin = [f \in Finalizers |-> FinIdle]
    /\ cre = [c \in Creators |-> CreIdle]
    /\ opn = [o \in Openers |-> OpnIdle]
    /\ ops = 0
    /\ vf = VfIdle
    /\ hr = <<>>
    /\ kg = KgIdle

\* hashDirectory(input/) is invoked once more; readdir lists the entries in
\* an order of its own.
HashRun(l) ==
    /\ Len(hr) < MaxHashRuns
    /\ \E listing \in Listings(disk[l].input) :
          hr' = Append(hr, hashDirectoryListed(disk[l].input, listing))
    /\ UNCHANGED <<now, registry, disk, gpgKeyId, pipInstalled, fin, cre, opn,
                   ops, vf, kg>>

NextHash == \E l \in Locs : HashRun(l)

SpecHash == InitHash /\ [][NextHash]_vars

\* ---------------------------------------------- getOrGenerateKey alone
\* The key ids of the secret keys a keyring may hold at the start.
OldKeys == <<<<"key", 1>>>>

\* The id gpg gives the key it generates: one no key of the ring has.
NewKey(ring) == <<"key", Len(ring) + 1>>

\* A keyring without or with a secret key; an identity is configured or not.
InitKey ==
    /\ now = 0
    /\ disk = [l \in Locs |-> EmptyLocation]
    /\ registry = <<>>
    /\ \E ring \in {<<>>, OldKeys} :
          /\ kg = [KgIdle EXCEPT !.ring = ring]
          /\ gpgKeyId \in {None} \cup {Some(ring[i]) : i \in DOMAIN ring}
    /\ pipInstalled = TRUE
    /\ fin = [f \in Finalizers |-> FinIdle]
    /\ cre = [c \in Creators |-> CreIdle]
    /\ opn = [o \in Openers |-> OpnIdle]
    /\ ops = 0
    /\ vf = VfIdle
    /\ hr = <<>>

KgFrame == <<now, registry, disk, pipInstalled, fin, cre, opn, vf, hr>>

\* The call ends: with the key it returns, or (key = None) by throwing.
KgEnd(g, key) ==
    [kg EXCEPT !.call[g].pc = "done", !.call[g].keyId = key,
               !.returned = IF key = None THEN @ ELSE @ \cup {key[1]}]

\* config.get('gpgKeyId'): a configured identity is returned at once,
\* otherwise gpg --list-secret-keys is started.
KgStart(g) ==
    /\ FreeSlot(kg.call, g)
    /\ ops < MaxOps
    /\ ops' = ops + 1
    /\ kg' = IF gpgKeyId # None THEN KgEnd(g, gpgKeyId)
             ELSE [kg EXCEPT !.call[g].pc = "list"]
    /\ UNCHANGED <<KgFrame, gpgKeyId>>

\* The listing answers.  With a 'sec' line the first key is taken and
\* config.update is started; with none, or when gpg fails (the error is
\* ignored), the message is shown and the batch file is written.
KgList(g) ==
    /\ kg.call[g].pc = "list"
    /\ \/ /\ kg.ring # <<>>
          /\ kg' = [kg EXCEPT !.call[g].pc = "persist",
                              !.call[g].keyId = Some(kg.ring[1])]
       \/ /\ kg.ring = <<>>
          /\ kg' = [kg EXCEPT !.call[g].pc = "batch", !.call[g].announced = TRUE]
       \/ kg' = [kg EXCEPT !.call[g].pc = "batch", !.call[g].announced = TRUE]
    /\ UNCHANGED <<KgFrame, gpgKeyId, ops>>

\* fs.writeFile of the batch file: done, or it throws.
KgWriteBatch(g) ==
    /\ kg.call[g].pc = "batch"
    /\ \/ kg' = [kg EXCEPT !.call[g].pc = "gen"]
       \/ kg' = KgEnd(g, None)
    /\ UNCHANGED <<KgFrame, gpgKeyId, ops>>

\* gpg --batch --gen-key: a new secret key at the end of the ring, or an error.
KgGenKey(g) ==
    /\ kg.call[g].pc = "gen"
    /\ \/ kg' = [kg EXCEPT !.ring = Append(@, NewKey(@)), !.call[g].pc = "relist"]
       \/ kg' = KgEnd(g, None)
    /\ UNCHANGED <<KgFrame, gpgKeyId, ops>>

\* The second listing: the loop keeps the key of the last 'sec' line; an
\* error of gpg is thrown.
KgRelist(g) ==
    /\ kg.call[g].pc = "relist"
    /\ \/ kg' = [kg EXCEPT !.call[g].pc = "persist",
                            !.call[g].keyId = Some(kg.ring[Len(kg.ring)])]
       \/ kg' = KgEnd(g, None)
    /\ UNCHANGED <<KgFrame, gpgKeyId, ops>>

\* config.update('gpgKeyId', keyId, Global), then return keyId; a rejected
\* update is thrown.
KgPersist(g) ==
    /\ kg.call[g].pc = "persist"
    /\ \/ /\ gpgKeyId' = kg.call[g].keyId
          /\ kg' = KgEnd(g, kg.call[g].keyId)
       \/ /\ kg' = KgEnd(g, None)
          /\ UNCHANGED gpgKeyId
    /\ UNCHANGED <<KgFrame, ops>>

KgReturn(g) ==
    /\ kg.call[g].pc = "done"
    /\ kg' = [kg EXCEPT !.call[g] = KgCallIdle]
    /\ UNCHANGED <<KgFrame, gpgKeyId, ops>>

NextKey ==
    \/ \E g \in KeyCallers : KgStart(g)
    \/ \E g \in KeyCallers : KgList(g)
    \/ \E g \in KeyCallers : KgWriteBatch(g)
    \/ \E g \in KeyCallers : KgGenKey(g)
    \/ \E g \in KeyCallers : KgRelist(g)
    \/ \E g \in KeyCallers : KgPersist(g)
    \/ \E g \in KeyCallers : KgReturn(g)

SpecKey == InitKey /\ [][NextKey]_vars

\* ==================================================================
\* Properties
\* ==================================================================
Completed(i) == registry[i].status = "COMPLETED"
AllIdle(procs) == \A p \in DOMAIN procs : procs[p].pc = "idle"

\* C1: once a record's status is COMPLETED, no step changes its status, its
\* manifest_path or its finalized_at.
C1_CompletedIsImmutable ==
    [][\A i \in DOMAIN registry :
          Completed(i) =>
              /\ registry'[i].status = "COMPLETED"
              /\ registry'[i].manifest_path = registry[i].manifest_path
              /\ registry'[i].finalized_at = registry[i].finalized_at]_vars

\* C2: a finalize command started on an experiment that is COMPLETED ends at
\* once with an error, having changed neither the disk nor the registry.
C2_FinalizeOnCompletedRejected ==
    [][\A f \in Finalizers :
          (/\ fin[f].pc = "idle"
           /\ fin'[f].pc # "idle"
           /\ StatusAt(registry, fin'[f].loc) = "COMPLETED")
          => /\ fin'[f].pc = "done"
             /\ fin'[f].res = "failed"
             /\ disk' = disk
             /\ registry' = registry]_vars

\* C3: of two finalize commands in flight on the same experiment, at most one
\* has written manifest.json.
C3_AtMostOneFinalizeWrites ==
    \A f, g \in Finalizers :
        (/\ f # g
         /\ fin[f].pc # "idle" /\ fin[g].pc # "idle"
         /\ fin[f].loc = fin[g].loc
         /\ RowsAt(registry, fin[f].loc) # {})
        => ~(fin[f].wrote # None /\ fin[g].wrote # None)

\* C4: in every record, finalized_at is set iff manifest_path is set iff the
\* status is COMPLETED.
C4_FinalizedFieldsIffCompleted ==
    \A i \in DOMAIN registry :
        /\ IsSet(registry[i].finalized_at) <=> IsSet(registry[i].manifest_path)
        /\ IsSet(registry[i].manifest_path) <=> Completed(i)

\* C5: a record is COMPLETED only with manifest.json and its detached
\* signature on disk at its location, and a finalize command reaches the
\* registry update (and reports success) only after its own signing succeeded.
C5_CompletedOnlyAfterSigning ==
    /\ \A i \in DOMAIN registry :
          Completed(i) => /\ disk[registry[i].path].manifest # None
                          /\ disk[registry[i].path].sig # None
    /\ \A f \in Finalizers :
          (fin[f].pc = "db" \/ fin[f].res = "success")
          => fin[f].signed /\ fin[f].wrote # None

\* A finalize has just committed COMPLETED with manifest and signature on disk.
C5_Witness ==
    \E f \in Finalizers :
        /\ fin[f].pc = "done" /\ fin[f].res = "success"
        /\ StatusAt(registry, fin[f].loc) = "COMPLETED"
        /\ disk[fin[f].loc].sig # None

\* C6: the step in which signing fails ends the command with an error and
\* changes neither the registry nor the disk: the record keeps its status,
\* finalized_at and manifest_path, no timestamp file is touched, and the
\* manifest and the code snapshot stay where they are.  A command that
\* failed never got past signing, and its remaining step changes nothing.
C6_SigningFailureIsFatal ==
    [][\A f \in Finalizers :
          /\ (/\ fin[f].pc = "sign"
              /\ fin'[f].pc \notin {"sign", "idle"}
              /\ ~fin'[f].signed)
             => /\ fin'[f].pc = "done"
                /\ fin'[f].res = "failed"
                /\ registry' = registry
                /\ disk' = disk
                /\ disk[fin[f].loc].manifest # None
                /\ disk[fin[f].loc].snapshot # None
          /\ (fin[f].pc = "done" /\ fin[f].res = "failed")
             => /\ ~fin[f].signed
                /\ fin'[f] # fin[f] => registry' = registry /\ disk' = disk]_vars

\* A finalize failed at signing: its manifest and snapshot are on disk and
\* the record is not COMPLETED.
C6_Witness ==
    \E f \in Finalizers :
        /\ fin[f].pc = "done" /\ fin[f].res = "failed"
        /\ fin[f].wrote # None
        /\ disk[fin[f].loc].manifest = fin[f].wrote
        /\ disk[fin[f].loc].snapshot # None
        /\ StatusAt(registry, fin[f].loc) = "CREATED"

\* C7: a finalize of a registered experiment that succeeded with a
\* timestamping warning leaves manifest.json and the signature on disk and no
\* manifest.tsr at the location.
C7_TimestampFailureLeavesNoToken ==
    \A f \in Finalizers :
        (/\ fin[f].pc = "done" /\ fin[f].res = "success" /\ fin[f].warn
         /\ RowsAt(registry, fin[f].loc) # {})
        => /\ disk[fin[f].loc].manifest # None
           /\ disk[fin[f].loc].sig # None
           /\ disk[fin[f].loc].tsr = None

\* C8: no record is COMPLETED with manifest_path or finalized_at unset,
\* whatever commands ran, failed or were cut short by a crash.
C8_NoHalfFinalizedRecord ==
    \A i \in DOMAIN registry :
        Completed(i) => /\ IsSet(registry[i].manifest_path)
                        /\ IsSet(registry[i].finalized_at)

\* A crash after timestamping and before the registry update: the token is
\* on disk, no finalize is in flight and the record is still CREATED.
C8_Witness ==
    /\ AllIdle(fin)
    /\ \E i \in DOMAIN registry :
          /\ registry[i].status = "CREATED"
          /\ registry[i].finalized_at = None
          /\ disk[registry[i].path].tsr # None

\* C9: the registry holds at most one record per location.
C9_AtMostOneRecordPerLocation ==
    \A l \in Locs : Cardinality(RowsAt(registry, l)) <= 1

\* C10: createSandbox on a folder that has output/ or .devcontainer/, or that
\* the registry lookup finds registered, ends rejected in that very step, and a
\* rejection changes neither the disk nor the registry (the number of records
\* of the location stays what it was).
C10_ExistingLocationRejected ==
    [][\A c \in Creators :
          /\ (/\ cre[c].pc = "idle"
              /\ cre'[c].pc # "idle"
              /\ cre'[c].res # "cancelled"
              /\ looksLikeProject(disk[cre'[c].loc]))
             => cre'[c].pc = "done" /\ cre'[c].res = "rejected"
          /\ (/\ cre[c].pc = "dbcheck"
              /\ cre'[c].pc \notin {"dbcheck", "idle"}
              /\ RowsAt(registry, cre[c].loc) # {})
             => cre'[c].pc = "done" /\ cre'[c].res = "rejected"
          /\ (cre[c].res # "rejected" /\ cre'[c].res = "rejected")
             => /\ disk' = disk
                /\ registry' = registry
                /\ cre[c].pc \in {"idle", "dbcheck"}]_vars

\* A createSandbox was rejected by the registry lookup: the folder had no
\* output/ nor .devcontainer/ when it was picked and is registered once.
C10_Witness ==
    \E c \in Creators :
        /\ cre[c].pc = "done" /\ cre[c].res = "rejected"
        /\ Cardinality(RowsAt(registry, cre[c].loc)) = 1
        /\ \E d \in Creators : d # c /\ cre[d].pc = "done" /\ cre[d].res = "success"


\* C11: no step of an openFolder handler, however it interleaves with other
\* commands, takes a record whose status is COMPLETED to another status.
C11_OpenNeverReopensCompleted ==
    [][\A o \in Openers :
          (opn[o].pc # "idle" /\ opn'[o] # opn[o]) =>
              \A i \in DOMAIN registry :
                  Completed(i) => registry'[i].status = "COMPLETED"]_vars

\* C12: an openFolder request that finds the experiment COMPLETED ends there:
\* the request is over after the lookup, the registry (last_opened_at
\* included) is as it was, and the folder is not opened.
C12_OpenOfCompletedRejected ==
    [][\A o \in Openers :
          (/\ opn[o].pc = "get"
           /\ opn'[o] # opn[o]
           /\ StatusAt(registry, opn[o].loc) = "COMPLETED") =>
              /\ opn'[o].pc = "idle"
              /\ registry' = registry]_vars

\* C13: an openFolder request that finds the experiment CREATED or IN_PROGRESS
\* goes on to the status update; that update leaves every such record of the
\* location IN_PROGRESS and changes nothing else (a record already IN_PROGRESS
\* is untouched by it); the last step sets last_opened_at, and only that, to
\* the instant it reads.
C13_OpenMarksInProgress ==
    [][\A o \in Openers :
          (opn[o].pc # "idle" /\ opn'[o] # opn[o] /\ ~Crash) =>
              LET l == opn[o].loc IN
              /\ (opn[o].pc = "get"
                  /\ StatusAt(registry, l) \in {"CREATED", "IN_PROGRESS"}) =>
                     (opn'[o].pc = "status" /\ registry' = registry)
              /\ opn[o].pc = "status" =>
                     /\ DOMAIN registry' = DOMAIN registry
                     /\ \A i \in DOMAIN registry :
                           IF registry[i].path = l
                              /\ registry[i].status \in {"CREATED", "IN_PROGRESS"}
                           THEN registry'[i] =
                                  [registry[i] EXCEPT !.status = "IN_PROGRESS"]
                           ELSE registry[i].path # l => registry'[i] = registry[i]
              /\ opn[o].pc = "lastOpened" =>
                     /\ DOMAIN registry' = DOMAIN registry
                     /\ \A i \in DOMAIN registry :
                           registry'[i] =
                              IF registry[i].path = l
                              THEN [registry[i] EXCEPT
                                       !.last_opened_at = Some(now')]
                              ELSE registry[i]]_vars

\* An experiment opened before (last_opened_at set, status IN_PROGRESS) is
\* opened again and the request has passed its status update.
C13_Witness ==
    \E o \in Openers :
        /\ opn[o].pc = "lastOpened"
        /\ RowsAt(registry, opn[o].loc) # {}
        /\ \A i \in RowsAt(registry, opn[o].loc) :
              /\ registry[i].status = "IN_PROGRESS"
              /\ registry[i].last_opened_at # None

C15_SignsWhatItWrote ==
    [][\A f \in Finalizers :
          (fin'[f] # fin[f] /\ ~Crash) =>
              LET l == fin[f].loc IN
              /\ (fin[f].pc = "sign" /\ fin'[f].signed) =>
                    disk'[l].sig[1].over = fin[f].wrote[1]
              /\ (fin[f].pc = "tsQuery" /\ fin'[f].pc = "tsSubmit") =>
                    disk'[l].tsq = Some(Sha256(fin[f].wrote[1]))
              /\ (fin[f].pc = "tsSubmit" /\ ~fin'[f].warn) =>
                    disk'[l].tsr =
                       Some([token_over |-> Sha256(fin[f].wrote[1])])]_vars

\* C16: up to and including its two hashing steps a finalize changes neither
\* the registry nor any file; a hashing step either hands on the full mapping
\* of its directory or ends the command, and then with the failure message.
C16_HashFailureChangesNothing ==
    [][\A f \in Finalizers :
          (fin[f].pc \in {"idle", "hashIn", "hashOut"}
           /\ fin'[f] # fin[f] /\ ~Crash) =>
              /\ registry' = registry
              /\ disk' = disk
              /\ fin[f].pc = "hashIn" =>
                    \/ /\ fin'[f].pc = "hashOut"
                       /\ fin'[f].inH = hashDirectory(disk[fin[f].loc].input)
                    \/ fin'[f].pc = "done" /\ fin'[f].res = "failed"
              /\ fin[f].pc = "hashOut" =>
                    \/ /\ fin'[f].pc = "pip"
                       /\ fin'[f].outH = hashDirectory(disk[fin[f].loc].output)
                    \/ fin'[f].pc = "done" /\ fin'[f].res = "failed"]_vars

\* A finalize has failed at hashing (it never wrote a manifest) on an
\* experiment that still holds the manifest.json of an earlier attempt and
\* whose record is not COMPLETED.
C16_Witness ==
    \E f \in Finalizers :
        /\ fin[f].pc = "done" /\ fin[f].res = "failed" /\ fin[f].wrote = None
        /\ disk[fin[f].loc].manifest # None
        /\ StatusAt(registry, fin[f].loc) = "CREATED"
        /\ \A g \in Finalizers : g # f => fin[g].pc = "idle"

\* C17: a finalize on an experiment that is not COMPLETED, whatever an
\* earlier failed attempt left behind, ends in failure only out of a hashing
\* step or out of its signing step: when those succeed, so does the retry.
C17_RetryFailsOnlyAtHashingOrSigning ==
    [][\A f \in Finalizers :
          (/\ fin[f].pc # "done"
           /\ fin'[f].pc = "done" /\ fin'[f].res = "failed"
           /\ StatusAt(registry, fin[f].loc) # "COMPLETED") =>
              fin[f].pc \in {"hashIn", "hashOut", "sign"}]_vars

\* C18: the step that ends a finalize ends it in one of two ways: with the
\* success message, the location then having a record and every record of it
\* being COMPLETED, or with the failure message and the registry as it was.
C18_ExactlyOneOutcome ==
    [][\A f \in Finalizers :
          (fin[f].pc # "done" /\ fin'[f].pc = "done") =>
              \/ /\ fin'[f].res = "success"
                 /\ RowsAt(registry', fin[f].loc) # {}
                 /\ \A i \in RowsAt(registry', fin[f].loc) :
                       registry'[i].status = "COMPLETED"
              \/ /\ fin'[f].res = "failed"
                 /\ registry' = registry]_vars

\* C19: no step taken on behalf of a 'Verify Integrity Now' request changes
\* the registry: every field of every record stays as it is.
C19_VerifyLeavesRegistryAlone ==
    [][\A o \in Openers :
          (opn[o].via = "verify" /\ opn[o].pc # "idle" /\ opn'[o] # opn[o]) =>
              registry' = registry]_vars

\* C20: on an experiment finalized by one run of the command, signed and
\* timestamped, verify() answers Valid while no file was edited, and once the
\* content of one file under output/, at whatever depth, was edited it
\* answers ContentMismatch with exactly the path of that file.
C20_VerifyNamesTheEditedFile ==
    \A l \in Locs :
        (/\ vf.result # None
         /\ ops = 1
         /\ disk[l].sig # None /\ disk[l].tsr # None) =>
            IF vf.tampered = None
            THEN vf.result[1].verdict = "Valid"
            ELSE /\ vf.result[1].verdict = "ContentMismatch"
                 /\ vf.result[1].paths = {vf.tampered[1]}

Keys_of(result) == {result.hashes[i][1] : i \in DOMAIN result.hashes}

\* C21: on one directory state, every two invocations of hashDirectory end
\* alike (both return or both throw) and return the same mapping from name to
\* digest, in whatever order readdir listed the entries; that mapping is the
\* one the order-free definition gives.
C21_HashingIsDeterministic ==
    \A l \in Locs : \A i, j \in DOMAIN hr :
        /\ hr[i].err = hr[j].err
        /\ Mapping(hr[i].hashes) = Mapping(hr[j].hashes)
        /\ hr[i].err = hashThrows(disk[l].input)
        /\ ~hr[i].err => Mapping(hr[i].hashes) = hashDirectory(disk[l].input)

\* Two invocations met two different listing orders (the objects they built
\* have their keys in different orders) and both returned.
C21_Witness ==
    /\ Len(hr) = 2
    /\ ~hr[1].err /\ ~hr[2].err
    /\ hr[1].hashes # hr[2].hashes

\* C22: every regular file below the directory, at any depth, that has no
\* hidden name on its path is a key of the returned mapping, under its path
\* relative to the directory.
C22_HashingTraversesTheTree ==
    \A l \in Locs : \A i \in DOMAIN hr :
        (~hr[i].err /\ disk[l].input # None) =>
            \A p \in FilesIn(disk[l].input[1]) :
                (\A s \in DOMAIN p : Head(p[s]) # ".") =>
                    IF Len(p) = 1 THEN p[1] \in Keys_of(hr[i])
                    ELSE \E k \in Keys_of(hr[i]) : k = p[1] \o p[2]

\* C23: a key of the returned mapping is never a name that begins with "."
\* and never the name of a directory: it is the name of a non-hidden entry of
\* the directory for which stat reports a regular file.
C23_KeysAreVisibleFiles ==
    \A l \in Locs : \A i \in DOMAIN hr :
        \A k \in Keys_of(hr[i]) :
            /\ Head(k) # "."
            /\ k \in DOMAIN disk[l].input[1]
            /\ disk[l].input[1][k].kind # "dir"
            /\ statKind(disk[l].input[1][k]) = "file"

\* hashDirectory returned on a directory that holds a hidden file, a
\* subdirectory and a data file, with a key for the data file.
C23_Witness ==
    \E l \in Locs : \E i \in DOMAIN hr :
        /\ ~hr[i].err
        /\ disk[l].input # None
        /\ {<<".", "cache">>, <<"sub">>, <<"a.csv">>} \subseteq DOMAIN disk[l].input[1]
        /\ <<"a.csv">> \in Keys_of(hr[i])

\* C24: a symbolic link in the directory gets no key in the mapping and does
\* not make hashDirectory throw, whatever it points to.
C24_SymlinksExcluded ==
    \A l \in Locs : \A i \in DOMAIN hr :
        /\ ~hr[i].err
        /\ \A k \in Keys_of(hr[i]) : disk[l].input[1][k].kind # "link"

\* C25: a finalize whose input/ (or output/) directory does not exist gets
\* the empty mapping for it from hashDirectory and goes on to its next step;
\* the hashing step cannot end the command then.
C25_MissingDirectoryHashesEmpty ==
    [][\A f \in Finalizers :
          (fin'[f] # fin[f] /\ ~Crash) =>
              /\ (fin[f].pc = "hashIn" /\ disk[fin[f].loc].input = None) =>
                    (fin'[f].pc = "hashOut" /\ fin'[f].inH = <<>>)
              /\ (fin[f].pc = "hashOut" /\ disk[fin[f].loc].output = None) =>
                    (fin'[f].pc = "pip" /\ fin'[f].outH = <<>>)]_vars

\* A finalize on a folder with neither input/ nor output/ is past both
\* hashing steps, with two empty mappings.
C25_Witness ==
    \E f \in Finalizers :
        /\ fin[f].pc = "pip"
        /\ disk[fin[f].loc].input = None /\ disk[fin[f].loc].output = None
        /\ fin[f].inH = <<>> /\ fin[f].outH = <<>>

\* C26: the manifest a finalize writes for an experiment scaffolded from the
\* input source {a.csv}, with nothing written to output/ since, has under
\* a.csv in input_hashes the digest of the source content and has the empty
\* mapping for output_hashes.
C26_ScenarioManifest ==
    \A f \in Finalizers :
        (/\ fin[f].wrote # None
         /\ disk[fin[f].loc].input = ScaffoldedLocation.input
         /\ disk[fin[f].loc].output = ScaffoldedLocation.output) =>
            /\ <<"a.csv">> \in DOMAIN fin[f].wrote[1].input_hashes
            /\ fin[f].wrote[1].input_hashes[<<"a.csv">>] =
                  Sha256(InputSource[<<"a.csv">>].data)
            /\ fin[f].wrote[1].output_hashes = <<>>

\* C27: a call of getOrGenerateKey is on its generating path only with the
\* message shown, no identity was configured and no secret key found when it
\* took that path, and every key a call has returned is the persisted
\* gpgKeyId setting: all calls return one and the same key.
C27_OneIdentity ==
    /\ \A g \in KeyCallers :
          kg.call[g].pc \in {"batch", "gen", "relist"} => kg.call[g].announced
    /\ \A k \in kg.returned : gpgKeyId = Some(k)

\* What a step leaves alone outside location l: every record of another
\* location and every file under another location.
OthersUntouched(l) ==
    /\ DOMAIN registry' = DOMAIN registry
    /\ \A i \in DOMAIN registry :
          registry[i].path # l => registry'[i] = registry[i]
    /\ \A m \in DOMAIN disk : m # l => disk'[m] = disk[m]

\* C28: a step of a finalize or of an openFolder request on one experiment,
\* whatever runs at the same time on another, changes no field of a record of
\* another location and no artifact under another location.
C28_ExperimentsAreIndependent ==
    [][/\ \A f \in Finalizers :
             fin'[f] # fin[f] =>
                OthersUntouched(IF fin[f].pc = "idle" THEN fin'[f].loc
                                ELSE fin[f].loc)
       /\ \A o \in Openers :
             opn'[o] # opn[o] =>
                OthersUntouched(IF opn[o].pc = "idle" THEN opn'[o].loc
                                ELSE opn[o].loc)]_vars

\* A finalize of expA has ended with success while expB was opened: expB's
\* record is IN_PROGRESS and nothing was written under expB.
C28_Witness ==
    \E f \in Finalizers :
        /\ fin[f].loc = "expA" /\ fin[f].pc = "done" /\ fin[f].res = "success"
        /\ StatusAt(registry, "expA") = "COMPLETED"
        /\ StatusAt(registry, "expB") = "IN_PROGRESS"
        /\ disk["expB"] = ScaffoldedLocation

\* C29: no step of createSandbox, openFolder or finalize removes a record:
\* every record of a state is there in the next, under its id and path.
C29_RecordsAreNeverRemoved ==
    [][/\ Len(registry') >= Len(registry)
       /\ \A i \in DOMAIN registry :
             /\ registry'[i].id = registry[i].id
             /\ registry'[i].path = registry[i].path]_vars

\* The record of an experiment is there after an openFolder went through and
\* a finalize failed on it.
C29_Witness ==
    \E f \in Finalizers :
        /\ fin[f].pc = "done" /\ fin[f].res = "failed"
        /\ RowsAt(registry, fin[f].loc) # {}
        /\ \A i \in RowsAt(registry, fin[f].loc) :
              registry[i].last_opened_at # None

\* C30: a record comes into existence only in the step in which a
\* createSandbox ends with success, for the location of that command, with
\* status CREATED and with last_opened_at, finalized_at and manifest_path
\* unset.
C30_RecordsStartCreated ==
    [][\A i \in DOMAIN registry' :
          i \notin DOMAIN registry =>
             /\ registry'[i].status = "CREATED"
             /\ registry'[i].last_opened_at = None
             /\ registry'[i].finalized_at = None
             /\ registry'[i].manifest_path = None
             /\ \E c \in Creators :
                   /\ cre[c].pc = "insert"
                   /\ cre'[c].pc = "done" /\ cre'[c].res = "success"
                   /\ registry'[i].path = cre[c].loc]_vars

\* A createSandbox on an unregistered location has ended with success and
\* its record is the only one.
C30_Witness ==
    \E c \in Creators :
        /\ cre[c].pc = "done" /\ cre[c].res = "success"
        /\ Len(registry) = 1
        /\ registry[1].path = cre[c].loc
        /\ registry[1].status = "CREATED"

\* The steps of a finalize command, and for each the steps that may follow
\* it: the next one in program order, the end of the command when the step
\* throws, and the skipped rest of the timestamping when that fails.
StepsInOrder ==
    {<<"idle", "hashIn">>, <<"hashIn", "hashOut">>, <<"hashOut", "pip">>,
     <<"pip", "snapshot">>, <<"snapshot", "write">>, <<"write", "sign">>,
     <<"sign", "tsQuery">>, <<"tsQuery", "tsSubmit">>, <<"tsQuery", "db">>,
     <<"tsSubmit", "db">>, <<"db", "done">>,
     <<"hashIn", "done">>, <<"hashOut", "done">>, <<"snapshot", "done">>,
     <<"sign", "done">>, <<"done", "idle">>}

\* C31: a finalize command is at one step at a time and moves from a step
\* only to the one after it in the order hash input/, hash output/, capture
\* environment, snapshot code, write manifest.json, sign, timestamp, update
\* registry (or to its end, or is lost with the extension host); it writes
\* manifest.json only at the write step, with the two mappings it computed,
\* starts the timestamp only once signed and updates the registry only at
\* the last step.
C31_StepsInOrder ==
    [][\A f \in Finalizers :
          /\ fin'[f].pc # fin[f].pc =>
                \/ <<fin[f].pc, fin'[f].pc>> \in StepsInOrder
                \/ fin' = [g \in Finalizers |-> FinIdle]
          /\ fin'[f].wrote # fin[f].wrote /\ fin'[f].wrote # None =>
                /\ fin[f].pc = "write"
                /\ fin'[f].wrote[1].input_hashes = fin[f].inH
                /\ fin'[f].wrote[1].output_hashes = fin[f].outH
                /\ disk'[fin[f].loc].manifest = fin'[f].wrote
          /\ fin'[f].pc = "tsQuery" /\ fin[f].pc # "tsQuery" => fin'[f].signed
          /\ fin'[f].res = "success" /\ fin[f].res # "success" =>
                fin[f].pc = "db"]_vars

\* A finalize went through every step: signed, token stored, record updated.
C31_Witness ==
    \E f \in Finalizers :
        /\ fin[f].pc = "done" /\ fin[f].res = "success" /\ ~fin[f].warn
        /\ disk[fin[f].loc].tsr # None
        /\ disk[fin[f].loc].snapshot # None
        /\ StatusAt(registry, fin[f].loc) = "COMPLETED"

\* C32: when a finalize ends with success the snapshot directory has one
\* entry per code file of the workspace, named after it, and no other: as
\* many entries as there are code files.
C32_SnapshotHoldsEveryCodeFile ==
    \A f \in Finalizers :
        (fin[f].pc = "done" /\ fin[f].res = "success") =>
            /\ disk[fin[f].loc].snapshot # None
            /\ disk[fin[f].loc].snapshot[1] =
                  {basename(p) : p \in disk[fin[f].loc].code}
            /\ Cardinality(disk[fin[f].loc].snapshot[1]) =
                  Cardinality(disk[fin[f].loc].code)

\* C33: once a location's record is COMPLETED and no finalize is at work on
\* the location, the signature file is a signature over the manifest.json
\* on disk and the timestamp token, if there is one, was issued over the
\* digest of that same manifest.json.
C33_AttestationBinding ==
    \A l \in Locs :
        (/\ StatusAt(registry, l) = "COMPLETED"
         /\ \A f \in Finalizers : fin[f].pc \in {"idle", "done"}) =>
            /\ disk[l].manifest # None
            /\ disk[l].sig # None
            /\ disk[l].sig[1].over = disk[l].manifest[1]
            /\ disk[l].tsr # None =>
                  disk[l].tsr[1].token_over = Sha256(disk[l].manifest[1])

\* C34: a finalize ends with the success message only when the location has
\* a record, which is then COMPLETED with manifest_path set; and a finalize
\* on a location without a record writes no file there and ends with the
\* failure message.
C34_SuccessNeedsARecord ==
    [][\A f \in Finalizers :
          /\ (fin[f].pc # "done" /\ fin'[f].pc = "done"
                                 /\ fin'[f].res = "success") =>
                /\ RowsAt(registry', fin[f].loc) # {}
                /\ \A i \in RowsAt(registry', fin[f].loc) :
                      /\ registry'[i].status = "COMPLETED"
                      /\ registry'[i].manifest_path # None
          /\ (fin[f].pc \notin {"idle", "done"}
                /\ fin'[f] # fin[f] /\ fin'[f].pc # "idle"
                /\ RowsAt(registry, fin[f].loc) = {}) =>
                /\ disk'[fin[f].loc] = disk[fin[f].loc]
                /\ fin'[f].pc = "done" => fin'[f].res = "failed"]_vars

\* The values the CHECK constraint of the status column admits.
Statuses == {"CREATED", "IN_PROGRESS", "COMPLETED"}

\* C35: the status of every record is CREATED, IN_PROGRESS or COMPLETED,
\* before and after every step, and no step takes a record that is
\* IN_PROGRESS or COMPLETED back to CREATED.
C35_StatusNeverBackToCreated ==
    [][/\ \A i \in DOMAIN registry : registry[i].status \in Statuses
       /\ \A i \in DOMAIN registry' : registry'[i].status \in Statuses
       /\ \A i \in DOMAIN registry :
             registry[i].status \in {"IN_PROGRESS", "COMPLETED"} =>
                /\ i \in DOMAIN registry'
                /\ registry'[i].status # "CREATED"]_vars

\* A record was opened and then finalized: it has been IN_PROGRESS and is
\* COMPLETED.
C35_Witness ==
    \E i \in DOMAIN registry :
        /\ registry[i].status = "COMPLETED"
        /\ registry[i].last_opened_at # None
        /\ registry[i].finalized_at # None
        /\ \E f \in Finalizers : fin[f].pc = "done" /\ fin[f].loc = registry[i].path

\* C36: a location that has a record has its input/, output/ and
\* .devcontainer/ directories, in every state; and the step in which a
\* createSandbox fails at scaffolding leaves the registry as it was.
C36_RegisteredOnlyOnceScaffolded ==
    /\ [](\A l \in Locs :
             RowsAt(registry, l) # {} =>
                /\ disk[l].input # None
                /\ disk[l].output # None
                /\ disk[l].devcontainer)
    /\ [][\A c \in Creators :
             (cre[c].pc \in {"scaffoldDirs", "scaffoldFiles"}
                /\ cre'[c].pc = "done") =>
                   /\ cre'[c].res = "failed"
                   /\ registry' = registry]_vars

\* One createSandbox failed at scaffolding and left no record; another one
\* scaffolded the location and registered it.
C36_Witness ==
    \E c, d \in Creators :
        /\ cre[c].pc = "done" /\ cre[c].res = "failed"
        /\ cre[d].pc = "done" /\ cre[d].res = "success"
        /\ RowsAt(registry, cre[d].loc) # {}
        /\ disk[cre[d].loc].devcontainer

\* C37: when a createSandbox ends with a failure (a scaffolding or insert
\* error) and the location has no record, the location passes the
\* existing-project check: a later createSandbox on it is not rejected there.
C37_FailedCreateLeavesLocationEligible ==
    [][\A c \in Creators :
          (/\ cre[c].pc \in {"scaffoldDirs", "scaffoldFiles", "insert"}
           /\ cre'[c].pc = "done" /\ cre'[c].res = "failed"
           /\ RowsAt(registry', cre[c].loc) = {}) =>
              ~looksLikeProject(disk'[cre[c].loc])]_vars

\* C38: a createSandbox ends as cancelled only from one of its two dialogs,
\* and no step it takes up to and including the second dialog changes a
\* file or the registry: a cancelled command has changed neither.
C38_CancelChangesNothing ==
    [][\A c \in Creators :
          /\ (cre'[c].res = "cancelled" /\ cre[c].res # "cancelled") =>
                cre[c].pc \in {"idle", "dialog2"}
          /\ (cre'[c] # cre[c] /\ cre[c].pc \in {"idle", "dbcheck", "dialog2"}) =>
                /\ disk' = disk
                /\ registry' = registry]_vars

\* A createSandbox was cancelled on a folder that is still clean and
\* unregistered.
C38_Witness ==
    \E c \in Creators :
        /\ cre[c].pc = "done" /\ cre[c].res = "cancelled"
        /\ disk[cre[c].loc] = EmptyLocation
        /\ RowsAt(registry, cre[c].loc) = {}

\* C39: the environment capture never ends a finalize: the step taken from
\* it goes on to the code snapshot, with the error description for
\* environment when pip freeze failed, and that description is what the
\* manifest written afterwards holds.
C39_PipFailureIsNotFatal ==
    [][\A f \in Finalizers :
          /\ (fin[f].pc = "pip" /\ fin'[f] # fin[f]
                /\ fin' # [g \in Finalizers |-> FinIdle]) =>
                /\ fin'[f].pc = "snapshot"
                /\ ~pipInstalled => fin'[f].pip = "Error capturing pip freeze"
          /\ (fin[f].pc = "write" /\ fin'[f].pc = "sign") =>
                disk'[fin[f].loc].manifest[1].pip_freeze = fin[f].pip]_vars

\* pip freeze failed and the finalize ended with the record COMPLETED and a
\* manifest whose environment is the error description.
C39_Witness ==
    \E f \in Finalizers :
        /\ ~pipInstalled
        /\ fin[f].pc = "done" /\ fin[f].res = "success"
        /\ StatusAt(registry, fin[f].loc) = "COMPLETED"
        /\ disk[fin[f].loc].manifest # None
        /\ disk[fin[f].loc].manifest[1].pip_freeze = "Error capturing pip freeze"

====
